---- MODULE Spec2Model ----
(***************************************************************************)
(* Message ingestion and forwarding of wcf_http.core.Http: the constructor *)
(* enables message receiving on the Wcf client and starts the "GetMessage" *)
(* thread; the thread loops over wcf.get_msg() and either POSTs every      *)
(* message to the callback URL (_forward_msg) or prints it.                *)
(*                                                                         *)
(* The Wcf client, the WxMsg objects and requests.post are collaborators   *)
(* outside the repository: their results (a message, queue.Empty, another  *)
(* exception, a status code, a transport error) are nondeterministic       *)
(* choices of the environment.  An exception the loop's except clauses do  *)
(* not contain (one that is not an Exception, or one whose text cannot be  *)
(* rendered for the error record) leaves callback and ends the thread.     *)
(* wcf.is_receiving_msg(), the logger and print() are taken not to raise.  *)
(***************************************************************************)
EXTENDS Integers, Sequences, FiniteSets, TLC

\* ---------------------------------------------------------------- bounds
\* number of messages the engine puts on the queue in one run
MaxEvents == 2
\* number of times wcf.get_msg() raises something other than queue.Empty
MaxPollFaults == 1
\* number of requests served by the route POST /msg_cb
MaxMsgCb == 1

\* ------------------------------------------------------------- constants
\* requests.post(..., timeout=30)
PostTimeout == 30
\* the only status _forward_msg accepts without logging an error
StatusOk == 200

\* --------------------------------------------------------- the environment
\* values main() may pass as cb: "" is the argparse default
CallbackUrls == {"", "http://sink/cb"}

\* wcf.self_wxid, the account the engine is logged in as
SelfWxid == "A"

\* What the engine can deliver as a WxMsg, apart from its id.  _is_self,
\* _is_group and _at stand for what msg.from_self(), msg.from_group() and
\* msg.is_at(wcf.self_wxid) answer: the message object computes them, core.py
\* only calls them.  The first is a message of the account itself in a
\* private chat, the second a group message that mentions the account.
MsgTemplates ==
  { [ts |-> 1001, sign |-> "s1", type |-> 3, xml |-> "", sender |-> "A",
     roomid |-> "bob", content |-> "hi", thumb |-> "t1", extra |-> "e1",
     _is_self |-> TRUE, _is_group |-> FALSE, _at |-> FALSE],
    [ts |-> 1002, sign |-> "s2", type |-> 1, xml |-> "<x2/>", sender |-> "bob",
     roomid |-> "room1", content |-> "hello", thumb |-> "t2", extra |-> "e2",
     _is_self |-> FALSE, _is_group |-> TRUE, _at |-> TRUE] }

\* what requests.post can end in: a response with a status code; an
\* Exception (no answer within PostTimeout seconds, endpoint unreachable, ...)
\* whose text is e; an Exception whose __str__ raises, so that f"{e}" in the
\* except clause raises; an exception that is not an Exception (SystemExit,
\* KeyboardInterrupt), which except Exception does not catch
Response(code) ==
  [raised |-> FALSE, status_code |-> code, exc |-> "", e |-> ""]
Raised(e) ==
  [raised |-> TRUE, status_code |-> 0, exc |-> "Exception", e |-> e]
RaisedBadStr ==
  [raised |-> TRUE, status_code |-> 0, exc |-> "BadStr", e |-> ""]
RaisedBaseException ==
  [raised |-> TRUE, status_code |-> 0, exc |-> "BaseException", e |-> ""]
PostOutcomes ==
  {Response(StatusOk), Response(500), Raised("timeout"), RaisedBadStr,
   RaisedBaseException}

\* where handling one message can raise before the POST or the print:
\* rendering f"{msg}", evaluating the flags of the payload
HandleFaults == {"render", "flags"}

\* what can be raised inside the try body of the loop, as the except clauses
\* tell it apart: queue.Empty; another Exception whose text f"{e}" renders;
\* another Exception whose __str__ raises; an exception that is not an
\* Exception
HandleExceptions == {"Empty", "Exception", "BadStr", "BaseException"}

\* what wcf.get_msg() raises when it is not queue.Empty
PollExceptions == HandleExceptions \ {"Empty"}

NoMsg == [id |-> 0]

VARIABLES
  cb,            \* the callback URL given to Http(wcf, cb)
  gw,            \* position of Http.__init__ / _set_cb: "new", "enabled", "started"
  enableCalls,   \* calls of wcf.enable_receiving_msg made so far
  threadsStarted,\* GetMessage threads started so far
  receiving,     \* what wcf.is_receiving_msg() answers
  msgQ,          \* the engine's message queue behind wcf.get_msg()
  produced,      \* messages the engine has put on the queue
  pollFaults,    \* times get_msg raised something other than Empty
  pc,            \* position of the GetMessage thread; "done": callback
                 \* returned, "died": an exception left callback
  msg,           \* the thread's local msg
  yielded,       \* messages get_msg has returned, in order
  attempts,      \* requests.post calls made, in order: [url, json]
  inflight,      \* indexes into attempts of the calls that have not returned
  results,       \* how the returned calls ended, in order
  printed,       \* what print() wrote, in order: by the thread or by msg_cb
  handleExc,     \* exceptions raised by the handling of a message, in order
  infoLog,       \* messages written by LOG.info before forwarding
  errLog         \* LOG.error records, in order

vars == <<cb, gw, enableCalls, threadsStarted, receiving, msgQ, produced,
          pollFaults, pc, msg, yielded, attempts, inflight, results, printed,
          handleExc, infoLog, errLog>>

envVars == <<receiving, msgQ, produced>>
gwVars == <<gw, enableCalls, threadsStarted>>
histVars == <<yielded, attempts, inflight, results, printed, handleExc,
              infoLog, errLog>>

\* ------------------------------------------------------------ _forward_msg
\* variant: is_group derived from the room id instead of msg.from_group()
Payload_RoomidGroup(m, wxid) ==
  [id |-> m.id, ts |-> m.ts, sign |-> m.sign, type |-> m.type, xml |-> m.xml,
   sender |-> m.sender, roomid |-> m.roomid, content |-> m.content,
   thumb |-> m.thumb, extra |-> m.extra,
   is_at |-> m._at, is_self |-> m._is_self, is_group |-> (m.roomid # "")]

\* the dict built at the top of _forward_msg
Payload(m, wxid) ==
  [id |-> m.id, ts |-> m.ts, sign |-> m.sign, type |-> m.type, xml |-> m.xml,
   sender |-> m.sender, roomid |-> m.roomid, content |-> m.content,
   thumb |-> m.thumb, extra |-> m.extra,
   is_at |-> m._at, is_self |-> m._is_self, is_group |-> m._is_group]

\* the records LOG.error writes: f"...HTTP 状态码为: {rsp.status_code}",
\* f"消息转发异常: {e}" and f"Receiving message error: {e}"
StatusError(code) == [kind |-> "status", status_code |-> code, e |-> ""]
TransportError(e) == [kind |-> "transport", status_code |-> 0, e |-> e]
LoopError(e) == [kind |-> "loop", status_code |-> 0, e |-> e]

\* variant: the status check is missing, only exceptions are logged
PostErrors_OnlyExceptions(outcome) ==
  IF outcome.raised
  THEN IF outcome.exc = "Exception" THEN <<TransportError(outcome.e)>> ELSE <<>>
  ELSE <<>>

\* what the try block around requests.post logs for one outcome; nothing is
\* logged there for an exception it does not catch or cannot render
PostErrors(outcome) ==
  IF outcome.raised
  THEN IF outcome.exc = "Exception" THEN <<TransportError(outcome.e)>> ELSE <<>>
  ELSE IF outcome.status_code # StatusOk
       THEN <<StatusError(outcome.status_code)>>
       ELSE <<>>

\* ------------------------------------------------------------------- Init
Init ==
  /\ cb \in CallbackUrls
  /\ gw = "new"
  /\ enableCalls = 0
  /\ threadsStarted = 0
  /\ receiving = FALSE
  /\ msgQ = <<>>
  /\ produced = 0
  /\ pollFaults = 0
  /\ pc = "none"
  /\ msg = NoMsg
  /\ yielded = <<>>
  /\ attempts = <<>>
  /\ inflight = {}
  /\ results = <<>>
  /\ printed = <<>>
  /\ handleExc = <<>>
  /\ infoLog = <<>>
  /\ errLog = <<>>

\* ------------------------------------------------------- Http.__init__
\* _set_cb: self.wcf.enable_receiving_msg(pyq=True); the engine may refuse
EnableReceivingMsg ==
  /\ gw = "new"
  /\ gw' = "enabled"
  /\ enableCalls' = enableCalls + 1
  /\ \E ok \in BOOLEAN : receiving' = ok
  /\ UNCHANGED <<cb, threadsStarted, msgQ, produced, pollFaults, pc, msg>>
  /\ UNCHANGED histVars

\* variant: the thread is started without waiting for enable_receiving_msg
StartThread_Unordered ==
  /\ threadsStarted = 0
  /\ gw' = IF gw = "enabled" THEN "started" ELSE gw
  /\ threadsStarted' = threadsStarted + 1
  /\ pc' = "check"
  /\ UNCHANGED <<cb, enableCalls, pollFaults, msg>>
  /\ UNCHANGED envVars
  /\ UNCHANGED histVars

\* _set_cb: Thread(target=callback, ...).start()
StartThread ==
  /\ gw = "enabled"
  /\ gw' = "started"
  /\ threadsStarted' = threadsStarted + 1
  /\ pc' = "check"
  /\ UNCHANGED <<cb, enableCalls, pollFaults, msg>>
  /\ UNCHANGED envVars
  /\ UNCHANGED histVars

\* ------------------------------------------------------------ the engine
\* the engine's listener puts a message on the queue while receiving
EnginePut ==
  /\ receiving
  /\ produced < MaxEvents
  /\ \E t \in MsgTemplates :
       msgQ' = Append(msgQ, [id |-> produced + 1] @@ t)
  /\ produced' = produced + 1
  /\ UNCHANGED <<cb, receiving, pollFaults, pc, msg>>
  /\ UNCHANGED gwVars
  /\ UNCHANGED histVars

\* the engine stops receiving (shutdown of the source)
EngineStop ==
  /\ receiving
  /\ receiving' = FALSE
  /\ UNCHANGED <<cb, msgQ, produced, pollFaults, pc, msg>>
  /\ UNCHANGED gwVars
  /\ UNCHANGED histVars

\* ------------------------------------------------- callback (GetMessage)
\* while wcf.is_receiving_msg():
IsReceivingMsg ==
  /\ pc = "check"
  /\ pc' = IF receiving THEN "poll" ELSE "done"
  /\ UNCHANGED <<cb, pollFaults, msg>>
  /\ UNCHANGED envVars
  /\ UNCHANGED gwVars
  /\ UNCHANGED histVars

\* msg = wcf.get_msg() returns the head of the queue
GetMsg ==
  /\ pc = "poll"
  /\ msgQ # <<>>
  /\ msg' = Head(msgQ)
  /\ msgQ' = Tail(msgQ)
  /\ yielded' = Append(yielded, Head(msgQ))
  /\ pc' = "handle"
  /\ UNCHANGED <<cb, receiving, produced, pollFaults>>
  /\ UNCHANGED gwVars
  /\ UNCHANGED <<attempts, inflight, results, printed, handleExc, infoLog,
                 errLog>>

\* variant: after queue.Empty the stale local msg is handled again
GetMsgEmpty_Replay ==
  /\ pc = "poll"
  /\ msgQ = <<>>
  /\ pc' = IF msg = NoMsg THEN "check" ELSE "handle"
  /\ UNCHANGED <<cb, pollFaults, msg>>
  /\ UNCHANGED envVars
  /\ UNCHANGED gwVars
  /\ UNCHANGED histVars

\* wcf.get_msg() raises queue.Empty: except Empty: continue
GetMsgEmpty ==
  /\ pc = "poll"
  /\ msgQ = <<>>
  /\ pc' = "check"
  /\ UNCHANGED <<cb, pollFaults, msg>>
  /\ UNCHANGED envVars
  /\ UNCHANGED gwVars
  /\ UNCHANGED histVars

\* the except clauses of the loop for an exception raised in the try body
\* at `at`: except Empty: continue; except Exception as e: LOG.error(f"{e}")
\* writes the record and the loop goes on, unless f"{e}" raises; that
\* exception, like one that is not an Exception, leaves callback: the thread
\* ends without a record
LoopExcept(exc, at) ==
  /\ errLog' = IF exc = "Exception" THEN Append(errLog, LoopError(at))
               ELSE errLog
  /\ pc' = IF exc \in {"Empty", "Exception"} THEN "check" ELSE "died"

\* wcf.get_msg() raises something other than queue.Empty
GetMsgError ==
  /\ pc = "poll"
  /\ pollFaults < MaxPollFaults
  /\ pollFaults' = pollFaults + 1
  /\ \E exc \in PollExceptions : LoopExcept(exc, "poll")
  /\ UNCHANGED <<cb, msg>>
  /\ UNCHANGED envVars
  /\ UNCHANGED gwVars
  /\ UNCHANGED <<yielded, attempts, inflight, results, printed, handleExc,
                 infoLog>>

\* variant: the message is forwarded whatever cb is
HasCallback_Always == TRUE

\* if cb:
HasCallback == cb # ""

\* variant: except Exception: pass
HandleRaises_Silent(fault, exc) ==
  /\ handleExc' = Append(handleExc, [id |-> msg.id, at |-> fault, exc |-> exc])
  /\ errLog' = errLog
  /\ msg' = msg
  /\ pc' = "check"

\* an exception of handling one message leaves the try body and reaches
\* the except clauses of the loop
HandleRaises(fault, exc) ==
  /\ handleExc' = Append(handleExc, [id |-> msg.id, at |-> fault, exc |-> exc])
  /\ LoopExcept(exc, fault)
  /\ msg' = msg

\* what print() writes: the thread's WxMsg or the Msg body of a request
CallbackPrint(m) == [by |-> "callback", msg |-> m]
MsgCbPrint(m) == [by |-> "msg_cb", msg |-> m]

\* variant: the POST is handed to a worker and the loop goes on at once
ForwardMsg_Async ==
  /\ pc = "handle"
  /\ HasCallback
  /\ infoLog' = Append(infoLog, msg)
  /\ attempts' = Append(attempts,
                   [url |-> cb, json |-> Payload(msg, SelfWxid),
                    timeout |-> PostTimeout])
  /\ inflight' = inflight \cup {Len(attempts) + 1}
  /\ pc' = "check"
  /\ UNCHANGED <<cb, pollFaults, msg, errLog, yielded, results, printed,
                 handleExc>>
  /\ UNCHANGED envVars
  /\ UNCHANGED gwVars

\* if cb: LOG.info(f"...{msg}"); self._forward_msg(msg, cb) up to the
\* requests.post call
ForwardMsg ==
  /\ pc = "handle"
  /\ HasCallback
  /\ \/ /\ \E exc \in HandleExceptions : HandleRaises("render", exc)
        /\ UNCHANGED <<attempts, inflight, infoLog>>
     \/ /\ infoLog' = Append(infoLog, msg)
        /\ \E exc \in HandleExceptions : HandleRaises("flags", exc)
        /\ UNCHANGED <<attempts, inflight>>
     \/ /\ infoLog' = Append(infoLog, msg)
        /\ attempts' = Append(attempts,
                         [url |-> cb, json |-> Payload(msg, SelfWxid),
                          timeout |-> PostTimeout])
        /\ inflight' = inflight \cup {Len(attempts) + 1}
        /\ pc' = "post"
        /\ UNCHANGED <<msg, errLog, handleExc>>
  /\ UNCHANGED <<cb, pollFaults, yielded, results, printed>>
  /\ UNCHANGED envVars
  /\ UNCHANGED gwVars

\* else: print(f"收到消息：{msg}")
PrintMsg ==
  /\ pc = "handle"
  /\ ~HasCallback
  /\ \/ /\ \E exc \in HandleExceptions : HandleRaises("render", exc)
        /\ UNCHANGED printed
     \/ /\ printed' = Append(printed, CallbackPrint(msg))
        /\ pc' = "check"
        /\ UNCHANGED <<msg, errLog, handleExc>>
  /\ UNCHANGED <<cb, pollFaults, yielded, attempts, inflight, results, infoLog>>
  /\ UNCHANGED envVars
  /\ UNCHANGED gwVars

\* variant: a failed POST is issued again
PostReturn_Retry ==
  /\ pc = "post"
  /\ \E i \in inflight, outcome \in PostOutcomes :
       /\ results' = Append(results, outcome)
       /\ IF outcome = Response(StatusOk)
          THEN /\ inflight' = inflight \ {i}
               /\ attempts' = attempts
               /\ errLog' = errLog
               /\ pc' = "check"
          ELSE IF outcome.exc = "BaseException"
          THEN /\ inflight' = inflight \ {i}
               /\ attempts' = attempts
               /\ errLog' = errLog
               /\ pc' = "died"
          ELSE /\ inflight' = (inflight \ {i}) \cup {Len(attempts) + 1}
               /\ attempts' = Append(attempts, attempts[i])
               /\ errLog' = errLog \o PostErrors(outcome)
               /\ pc' = "post"
  /\ UNCHANGED <<cb, pollFaults, msg, yielded, printed, handleExc, infoLog>>
  /\ UNCHANGED envVars
  /\ UNCHANGED gwVars

\* requests.post returns or raises.  A response, or an Exception whose text
\* renders: _forward_msg logs and returns to the loop.  An Exception whose
\* __str__ raises: f"{e}" raises inside the except clause of _forward_msg,
\* nothing is logged there, and what __str__ raised reaches the except
\* clauses of the loop.  Not an Exception: nothing catches it.
PostReturn ==
  /\ pc = "post"
  /\ \E i \in inflight, outcome \in PostOutcomes :
       /\ inflight' = inflight \ {i}
       /\ results' = Append(results, outcome)
       /\ IF outcome.exc = "BadStr"
          THEN \E raisedByStr \in HandleExceptions :
                 LoopExcept(raisedByStr, "post")
          ELSE IF outcome.exc = "BaseException"
          THEN /\ errLog' = errLog
               /\ pc' = "died"
          ELSE /\ errLog' = errLog \o PostErrors(outcome)
               /\ pc' = "check"
  /\ UNCHANGED <<cb, pollFaults, msg, yielded, attempts, printed, handleExc,
                 infoLog>>
  /\ UNCHANGED envVars
  /\ UNCHANGED gwVars

\* ------------------------------------------------------ the route /msg_cb
\* the Msg body of a request: what _forward_msg posts for the group message
\* above when it is the first message; cb may name the server's own
\* /msg_cb (the sample callback), and any client may send the same body
SampleBody ==
  [id |-> 1, ts |-> 1002, sign |-> "s2", type |-> 1, xml |-> "<x2/>",
   sender |-> "bob", roomid |-> "room1", content |-> "hello", thumb |-> "t2",
   extra |-> "e2", is_at |-> TRUE, is_self |-> FALSE, is_group |-> TRUE]

\* bodies the route receives
MsgCbBodies == {SampleBody}

NumMsgCb == Cardinality({i \in DOMAIN printed : printed[i].by = "msg_cb"})

\* msg_cb: print(f"收到消息：{msg}"); return {"status": 0, ...}
MsgCb ==
  /\ gw = "started"
  /\ NumMsgCb < MaxMsgCb
  /\ \E body \in MsgCbBodies : printed' = Append(printed, MsgCbPrint(body))
  /\ UNCHANGED <<cb, pollFaults, pc, msg, yielded, attempts, inflight, results,
                 handleExc, infoLog, errLog>>
  /\ UNCHANGED envVars
  /\ UNCHANGED gwVars

Gateway == EnableReceivingMsg \/ StartThread \/ MsgCb
Engine == EnginePut \/ EngineStop
Forwarder ==
  \/ IsReceivingMsg
  \/ GetMsg
  \/ GetMsgEmpty
  \/ GetMsgError
  \/ ForwardMsg
  \/ PrintMsg
  \/ PostReturn

Next == Gateway \/ Engine \/ Forwarder

Spec == Init /\ [][Next]_vars

\* The started thread is scheduled; get_msg and requests.post return within
\* their timeouts.
LiveSpec == Spec /\ WF_vars(Forwarder)

\* ------------------------------------------------------ helpers of the claims
\* the ten fields _forward_msg copies
Copied(r) ==
  [id |-> r.id, ts |-> r.ts, sign |-> r.sign, type |-> r.type, xml |-> r.xml,
   sender |-> r.sender, roomid |-> r.roomid, content |-> r.content,
   thumb |-> r.thumb, extra |-> r.extra]

RECURSIVE IsSubseq(_, _)
IsSubseq(s, t) ==
  IF s = <<>> THEN TRUE
  ELSE IF t = <<>> THEN FALSE
  ELSE IF Head(s) = Head(t) THEN IsSubseq(Tail(s), Tail(t))
  ELSE IsSubseq(s, Tail(t))

AttemptedEvents == [i \in DOMAIN attempts |-> Copied(attempts[i].json)]
YieldedEvents == [i \in DOMAIN yielded |-> Copied(yielded[i])]
\* what the thread printed (line 108), apart from what msg_cb printed
CallbackPrinted == SelectSeq(printed, LAMBDA r : r.by = "callback")
PrintedEvents == [i \in DOMAIN CallbackPrinted |-> Copied(CallbackPrinted[i].msg)]

\* number of requests.post calls made for the message with this id
NumAttempts(id) == Cardinality({i \in DOMAIN attempts : attempts[i].json.id = id})
NumPrints(id) ==
  Cardinality({i \in DOMAIN CallbackPrinted : CallbackPrinted[i].msg.id = id})

\* messages taken from the source whose handling has got past the point
\* where it posts, prints or raises
NumDecided == IF pc = "handle" THEN Len(yielded) - 1 ELSE Len(yielded)
Decided == SubSeq(yielded, 1, NumDecided)

\* error records by origin
DeliveryErrors == SelectSeq(errLog, LAMBDA r : r.kind \in {"status", "transport"})
HandleErrors == SelectSeq(errLog, LAMBDA r : r.kind = "loop" /\ r.e \in HandleFaults)
PollErrors == SelectSeq(errLog, LAMBDA r : r.kind = "loop" /\ r.e = "poll")

\* handling exceptions by what became of them: swallowed by except Empty,
\* logged by except Exception, or left callback
SilentDrops == SelectSeq(handleExc, LAMBDA x : x.exc = "Empty")
LoggedDrops == SelectSeq(handleExc, LAMBDA x : x.exc = "Exception")
FatalDrops ==
  SelectSeq(handleExc, LAMBDA x : x.exc \in {"BadStr", "BaseException"})

Failed(outcome) == outcome.raised \/ outcome.status_code # 200

\* the thread is over: callback returned or an exception left it
ThreadEnded == pc \in {"done", "died"}

\* --------------------------------------------------------------------- C1
\* C1: with a non-empty callback URL the POSTs made are at most as many as
\* the messages get_msg returned, every POST goes to the callback URL and
\* carries a message that was returned, no message is posted twice, and the
\* POSTs are in the order in which get_msg returned the messages.
C1_OrderedAtMostOnce ==
  cb # "" =>
    /\ Len(attempts) <= Len(yielded)
    /\ \A i \in DOMAIN attempts : attempts[i].url = cb
    /\ \A i, j \in DOMAIN attempts :
         i # j => attempts[i].json.id # attempts[j].json.id
    /\ IsSubseq(AttemptedEvents, YieldedEvents)

\* two messages taken, only the second one posted
C1_Witness ==
  /\ cb # ""
  /\ Len(yielded) = 2
  /\ Len(attempts) = 1
  /\ attempts[1].json.id = yielded[2].id
  /\ Len(results) = 1

\* --------------------------------------------------------------------- C2
\* C2: with an empty callback URL no POST is ever made, in flight or
\* returned, nothing is logged as forwarded or as a delivery error, and the
\* messages taken from the source go to print() only: what the thread
\* printed is, in order, the messages taken from the source, less those
\* whose rendering raised.
C2_NoHttpWithoutCallback ==
  cb = "" =>
    /\ attempts = <<>>
    /\ inflight = {}
    /\ results = <<>>
    /\ infoLog = <<>>
    /\ DeliveryErrors = <<>>
    /\ pc # "post"
    /\ IsSubseq(PrintedEvents, YieldedEvents)
    /\ \A i \in DOMAIN CallbackPrinted : \E k \in 1..NumDecided :
         CallbackPrinted[i].msg = yielded[k]
    /\ Len(CallbackPrinted) + Len(handleExc) = NumDecided

C2_Witness ==
  /\ cb = ""
  /\ Len(CallbackPrinted) = 2
  /\ PrintedEvents = YieldedEvents
  /\ pc = "done"

\* --------------------------------------------------------------------- C3
\* C3 as stated: every message taken from the source is posted or printed
\* exactly once, also when its handling raises.
C3_Original ==
  \A k \in 1..NumDecided :
    NumAttempts(yielded[k].id) + NumPrints(yielded[k].id) = 1

\* C3 amended: every message taken from the source is posted or printed by
\* the thread at most once and never both; a message is neither posted nor
\* printed exactly when its handling raised before the POST or the print;
\* such a message leaves one "Receiving message error" record when the
\* exception is an Exception whose text renders, and none when it is a
\* queue.Empty or when it leaves callback (not an Exception, or its text
\* does not render); in the last case it is the last message handled and
\* the thread has ended.
C3_AtMostOnceOrDropped ==
  /\ \A k \in 1..NumDecided :
       NumAttempts(yielded[k].id) + NumPrints(yielded[k].id) <= 1
  /\ \A i \in DOMAIN attempts : \E k \in 1..NumDecided :
       attempts[i].json.id = yielded[k].id
  /\ \A i \in DOMAIN CallbackPrinted : \E k \in 1..NumDecided :
       CallbackPrinted[i].msg = yielded[k]
  /\ \A k \in 1..NumDecided :
       (NumAttempts(yielded[k].id) + NumPrints(yielded[k].id) = 0)
         <=> (\E j \in DOMAIN handleExc : handleExc[j].id = yielded[k].id)
  /\ Len(attempts) + Len(CallbackPrinted) + Len(handleExc) = NumDecided
  /\ Len(HandleErrors) = Len(LoggedDrops)
  /\ \A j \in DOMAIN LoggedDrops : HandleErrors[j].e = LoggedDrops[j].at
  /\ Len(FatalDrops) <= 1
  /\ \A j \in DOMAIN handleExc :
       handleExc[j].exc \in {"BadStr", "BaseException"}
         => /\ j = Len(handleExc)
            /\ pc = "died"
            /\ handleExc[j].id = yielded[Len(yielded)].id

\* one message dropped with an error record, the next dropped by a
\* queue.Empty without one
C3_Witness ==
  /\ Len(yielded) = 2
  /\ pc = "check"
  /\ Len(HandleErrors) = 1
  /\ Len(SilentDrops) = 1
  /\ NumAttempts(yielded[1].id) + NumPrints(yielded[1].id) = 0
  /\ handleExc[1].exc = "Exception"

\* --------------------------------------------------------------------- C4
\* C4: the thread reaches its end only by a step taken at the loop test with
\* is_receiving_msg() false; a poll, a handling step or the return of a POST
\* never ends the loop;
\* a step that records an error records exactly one and puts the thread
\* back at the loop test, from where it polls again while the source is
\* receiving; and every fault of handling a message is recorded: a handling
\* step that neither posts nor prints the message writes an error record.
C4_Original ==
  [][ /\ (~ThreadEnded /\ ThreadEnded')
           => (pc = "check" /\ ~receiving /\ pc' = "done")
      /\ (pc \in {"poll", "handle", "post"} /\ pc' # pc)
           => pc' \in {"check", "handle", "post"}
      /\ (errLog' # errLog)
           => /\ Len(errLog') = Len(errLog) + 1
              /\ SubSeq(errLog', 1, Len(errLog)) = errLog
              /\ pc' = "check"
      /\ (errLog' # errLog /\ pc \in {"poll", "handle"})
           => UNCHANGED <<msgQ, attempts, printed, inflight, results>>
      /\ (pc = "check" /\ pc' # pc /\ receiving) => pc' = "poll"
      /\ (pc = "handle" /\ pc' = "check" /\ UNCHANGED <<attempts, printed>>)
           => Len(errLog') = Len(errLog) + 1
    ]_vars

\* --------------------------------------------------------------------- C5
\* C5 as stated: with a non-empty callback URL every message taken from the
\* source has exactly one POST, none has zero.
C5_Original ==
  cb # "" => \A k \in 1..NumDecided : NumAttempts(yielded[k].id) = 1

\* C5 amended: with a non-empty callback URL every message taken from the
\* source has at most one POST, and a POST that failed is not issued again;
\* the messages with no POST are those whose handling raised before the
\* POST, whether the exception was logged, was a queue.Empty or ended the
\* thread.
C5_NoRetry ==
  cb # "" =>
    /\ \A k \in DOMAIN yielded : NumAttempts(yielded[k].id) <= 1
    /\ \A i \in DOMAIN results :
         Failed(results[i]) =>
           /\ i \notin inflight
           /\ \A j \in DOMAIN attempts :
                j # i => attempts[j].json.id # attempts[i].json.id
    /\ Len(results) <= Len(attempts)
    /\ \A k \in 1..NumDecided :
         (NumAttempts(yielded[k].id) = 0)
           <=> (\E j \in DOMAIN handleExc : handleExc[j].id = yielded[k].id)
    /\ Len(attempts) = NumDecided - Len(handleExc)

\* the first POST failed, the loop went on and posted the second message
C5_Witness ==
  /\ cb # ""
  /\ Len(results) = 2
  /\ Failed(results[1])
  /\ Len(attempts) = 2
  /\ attempts[2].json.id = yielded[2].id

\* --------------------------------------------------------------------- C6
\* C6: the delivery error records are, in order, one per returned POST that
\* ended in a status other than 200 (carrying that status) or in the
\* exception requests raises for a timeout or an unreachable endpoint
\* (carrying its text), and none for a POST answered 200; after each of
\* these outcomes the thread is back at the loop test.  (An exception of
\* another kind, one that is not an Exception or whose text does not render,
\* is none of these outcomes; it leaves no delivery error record.)
TimeoutOrUnreachable(outcome) == outcome.raised /\ outcome.exc = "Exception"

C6_ExpectedErrors(i) ==
  IF TimeoutOrUnreachable(results[i])
  THEN <<[kind |-> "transport", status_code |-> 0, e |-> results[i].e]>>
  ELSE IF results[i].raised \/ results[i].status_code = 200
       THEN <<>>
       ELSE <<[kind |-> "status", status_code |-> results[i].status_code,
               e |-> ""]>>

RECURSIVE C6_ExpectedLog(_)
C6_ExpectedLog(n) ==
  IF n = 0 THEN <<>> ELSE C6_ExpectedLog(n - 1) \o C6_ExpectedErrors(n)

C6_OneErrorPerFailure ==
  /\ [](DeliveryErrors = C6_ExpectedLog(Len(results)))
  /\ []((\A i \in DOMAIN results : ~Failed(results[i])) => DeliveryErrors = <<>>)
  /\ [][results' # results
          => /\ Len(results') = Len(results) + 1
             /\ SubSeq(results', 1, Len(results)) = results
             /\ (TimeoutOrUnreachable(results'[Len(results')])
                   \/ ~results'[Len(results')].raised) => pc' = "check"
             /\ UNCHANGED <<attempts, msgQ, yielded>>]_vars

\* a 500, then a timeout, then the loop is back to polling
C6_Witness ==
  /\ Len(results) = 2
  /\ results[1] = Response(500)
  /\ results[2] = Raised("timeout")
  /\ Len(DeliveryErrors) = 2
  /\ DeliveryErrors[1].status_code = 500
  /\ pc = "poll"

\* --------------------------------------------------------------------- C7
\* C7: once the thread runs and the source is not receiving, the thread
\* returns from callback at the loop test (a clean exit, pc = "done"); the
\* step that ends it logs no error; after its end there is no poll, POST,
\* print or log record of the thread (the route /msg_cb, which is not the
\* thread, may still print).
C7_Original ==
  /\ (pc # "none" /\ ~receiving) ~> (pc = "done")
  /\ [][(~ThreadEnded /\ ThreadEnded')
          => (pc' = "done" /\ UNCHANGED errLog)]_vars
  /\ [][ThreadEnded
          => /\ UNCHANGED <<pc, msg, msgQ, pollFaults, yielded, attempts,
                            inflight, results, handleExc, infoLog, errLog>>
             /\ CallbackPrinted' = CallbackPrinted]_vars

\* --------------------------------------------------------------------- C8
\* C8 as stated: in every posted payload is_self is true exactly when the
\* sender equals the local identity, is_group is true exactly when the room
\* id is non-empty, and the ten copied fields equal the message's.
C8_Original ==
  \A i \in DOMAIN attempts : \E k \in DOMAIN yielded :
    /\ Copied(attempts[i].json) = Copied(yielded[k])
    /\ attempts[i].json.is_self = (yielded[k].sender = SelfWxid)
    /\ attempts[i].json.is_group = (yielded[k].roomid # "")

\* C8 amended: every posted payload is a function of the message alone and
\* of what the message answers: the ten copied fields equal the message's,
\* is_self is what msg.from_self() answers, is_group what msg.from_group()
\* answers, is_at what msg.is_at(local identity) answers; the message is
\* left as get_msg returned it.
C8_FlagsFromMessage ==
  /\ \A i \in DOMAIN attempts : \E k \in DOMAIN yielded :
       /\ attempts[i].json.id = yielded[k].id
       /\ attempts[i].json.ts = yielded[k].ts
       /\ attempts[i].json.sign = yielded[k].sign
       /\ attempts[i].json.type = yielded[k].type
       /\ attempts[i].json.xml = yielded[k].xml
       /\ attempts[i].json.sender = yielded[k].sender
       /\ attempts[i].json.roomid = yielded[k].roomid
       /\ attempts[i].json.content = yielded[k].content
       /\ attempts[i].json.thumb = yielded[k].thumb
       /\ attempts[i].json.extra = yielded[k].extra
       /\ attempts[i].json.is_self = yielded[k]._is_self
       /\ attempts[i].json.is_group = yielded[k]._is_group
       /\ attempts[i].json.is_at = yielded[k]._at
       /\ DOMAIN attempts[i].json =
            {"id", "ts", "sign", "type", "xml", "sender", "roomid", "content",
             "thumb", "extra", "is_at", "is_self", "is_group"}
  /\ pc = "post" => msg = yielded[Len(yielded)]

\* a posted payload whose room id is non-empty and whose is_group is false,
\* followed by one of a group message that mentions the account
C8_Witness ==
  /\ Len(attempts) = 2
  /\ attempts[1].json.roomid # ""
  /\ ~attempts[1].json.is_group
  /\ attempts[1].json.sender = SelfWxid
  /\ attempts[1].json.is_self
  /\ attempts[2].json.is_group
  /\ attempts[2].json.is_at
  /\ ~attempts[2].json.is_self

\* --------------------------------------------------------------------- C9
\* C9: at most one POST is in flight, and only while the thread waits in
\* _forward_msg; every POST made has returned or is the one in flight; no
\* message is taken from the source and no POST is started while a POST is
\* in flight.
C9_SerialDelivery ==
  /\ [](Cardinality(inflight) <= 1)
  /\ [](inflight # {} => (pc = "post" /\ inflight = {Len(attempts)}))
  /\ [](Len(results) + Cardinality(inflight) = Len(attempts))
  /\ [][(yielded' # yielded \/ attempts' # attempts) => inflight = {}]_vars

\* the first POST returned, the second is in flight
C9_Witness ==
  /\ inflight = {2}
  /\ Len(results) = 1
  /\ pc = "post"

\* -------------------------------------------------------------------- C10
\* C10: enable_receiving_msg is called at most once and the thread is
\* started at most once; whenever the thread runs both have happened, the
\* call before the start; the thread, once ended (by returning or by an
\* exception), stays ended.
C10_StartupOrder ==
  /\ [](enableCalls <= 1 /\ threadsStarted <= 1)
  /\ [](pc # "none" => (enableCalls = 1 /\ threadsStarted = 1))
  /\ [](pc = "none" => (threadsStarted = 0 /\ yielded = <<>>))
  /\ [][threadsStarted' # threadsStarted
          => (enableCalls = 1 /\ enableCalls' = 1 /\ pc = "none")]_vars
  /\ [][enableCalls' # enableCalls => (threadsStarted = 0 /\ pc = "none")]_vars
  /\ [][ThreadEnded => pc' = pc]_vars

C10_Witness ==
  /\ gw = "started"
  /\ enableCalls = 1
  /\ threadsStarted = 1
  /\ pc = "done"
  /\ Len(yielded) = 2
====
